---- MODULE Spec2Model ----
(***************************************************************************)
(* Model of the Bitget futures extraction pipeline:                        *)
(*   lambdas/bitget_client.py   the per-symbol paginator                    *)
(*   fastapi_app/main.py        the local fan-out, merge, and AWS wrapper   *)
(*   lambdas/worker/app.py      the batch worker                            *)
(*   lambdas/collector/app.py   the reduction step                          *)
(*                                                                         *)
(* A record (an order or a fill) is a function from field names to         *)
(* positive integers; a field that is absent from the dict is absent from  *)
(* the DOMAIN.  Python's None is modelled by 0, which is also falsy, so     *)
(* that  a or b  is  IF a # 0 THEN a ELSE b.                                *)
(***************************************************************************)
EXTENDS Integers, Sequences, FiniteSets, TLC

VARIABLES
    \* ---- one run of the paginator, step by step ----
    pg,          \* locals of fetch_all_futures_history_for_symbol
    cfg,         \* its parameters per_page, max_pages, use_fills
    fetches,     \* number of client calls issued so far
    got,         \* items of the successful page responses received, in order
    last,        \* the last thing the client call produced
    sent_end_id, \* the end_id argument of the last client call
    \* ---- extract_futures_orders_local ----
    lpc,              \* where the function is: "idle", "start", "fanout", "done"
    symbols,          \* its argument symbols
    test_mode,        \* its argument test_mode
    api,              \* which exchange answers: "ledger", "small", "reject", ...
    selected_symbols,
    max_workers,
    task,             \* the futures of the pool, one per entry of selected_symbols
    runs,             \* how often the paginator was run for each entry
    all_orders,
    result,           \* the dict the function returned
    \* ---- the worker and collector lambdas ----
    wpc,              \* "idle", "map" (workers being invoked), "done"
    wresults,         \* the worker outputs handed to the collector, in order
    wlog,             \* per worker invocation: its symbols and the requests it sent
    cresult,          \* the dict the collector returned
    \* ---- the merge stage applied to a given list ----
    dpc,              \* "idle", "input", "done"
    dd_in,            \* a list of records
    dd_once,          \* what each dedup variant makes of it
    dd_twice,         \* what each dedup variant makes of its own output
    \* ---- extract_orders_aws ----
    apc,              \* "idle", "start", "poll", "store", "fallback", "done"
    asymbols,         \* its argument symbols
    symbol_batches,
    polls,            \* describe_execution calls so far; MaxPolls + 1 stands for
                      \* that many or more
    astatus,          \* the status the last describe_execution returned, or "none"
    acause,           \* what sent the function to its except branch, or "none"
    aresult,          \* the dict the function returned
    \* ---- POST /extract ----
    hpc,              \* "idle", "request", "call", "responded"
    hsymbols,         \* request.symbols
    hdebug,           \* whether DEBUG is 'true'
    hstatus,          \* the HTTP status of the response, 0 before it
    \* ---- one call of a client operation ----
    kpc,              \* "idle", "call", "done"
    kfills,           \* get_futures_fills (TRUE) or get_futures_history_orders
    khttp,            \* what the HTTP exchange of the call comes to
    kret,             \* what the operation returned, or that it raised
    \* ---- the exchange ----
    requests          \* HTTP requests the process has sent to the exchange

pagVars == <<pg, cfg, fetches, got, last, sent_end_id>>

localVars == <<lpc, symbols, test_mode, api, selected_symbols, max_workers, task,
               runs, all_orders, result>>

lambdaVars == <<wpc, wresults, wlog, cresult>>

dedupVars == <<dpc, dd_in, dd_once, dd_twice>>

awsVars == <<apc, asymbols, symbol_batches, polls, astatus, acause, aresult>>

httpVars == <<hpc, hsymbols, hdebug, hstatus>>

clientVars == <<kpc, kfills, khttp, kret>>

vars == <<pg, cfg, fetches, got, last, sent_end_id,
          lpc, symbols, test_mode, api, selected_symbols, max_workers, task,
          runs, all_orders, result,
          wpc, wresults, wlog, cresult,
          dpc, dd_in, dd_once, dd_twice,
          apc, asymbols, symbol_batches, polls, astatus, acause, aresult,
          hpc, hsymbols, hdebug, hstatus,
          kpc, kfills, khttp, kret, requests>>

----------------------------------------------------------------------------
\* Bounds of the model

\* page size requested by the callers of the paginator (per_page)
PerPage == 2
\* client calls of one paginator run that the model follows
MaxFetch == 3
\* client calls of one symbol's task inside the fan-out
MaxTaskFetch == 2
\* symbols of a request served by the small exchange
MaxSymbols == 3
\* symbols of a request served by the rejecting exchange
MaxManySymbols == 11
\* batches the orchestrator maps over the worker
MaxBatches == 2
\* length of the lists handed to the merge stage on its own
MaxLen == 3
\* describe_execution calls the model follows while the status is RUNNING
MaxPolls == 2

----------------------------------------------------------------------------
\* Python values

None == 0

\* dict.get(f): the value, or None when the key is absent
Get(r, f) == IF f \in DOMAIN r THEN r[f] ELSE None

\* a or b
Or(a, b) == IF a # None THEN a ELSE b

\* an element of a JSON list that is not a dict (a string, a number, null)
NonDict == [nondict |-> 1]

\* stands for a field value that int() rejects (a string that is no number);
\* the timestamps the exchange sends are never negative
NotANumber == -1

IsDict(r) == "nondict" \notin DOMAIN r

\* order[f] = v on a dict
SetField(r, f, v) == [g \in DOMAIN r \cup {f} |-> IF g = f THEN v ELSE r[g]]

Min(a, b) == IF a <= b THEN a ELSE b

RECURSIVE Concat(_)
Concat(ss) == IF ss = <<>> THEN <<>> ELSE Head(ss) \o Concat(Tail(ss))

SeqsUpTo(S, n) == UNION {[1..k -> S] : k \in 0..n}

----------------------------------------------------------------------------
\* The exchange as seen through the client: what one call of
\* get_futures_fills / get_futures_history_orders can produce.

SUCCESS == "00000"

\* the largest page size the client asks the exchange for
MAX_LIMIT == 100

\* "limit": min(100, max(1, int(limit))), the page size the request carries
Limit(limit) == Min(MAX_LIMIT, IF limit >= 1 THEN limit ELSE 1)

\* a decoded envelope whose data is a dict
Envelope(code, items, flag) ==
    [kind |-> "resp", code |-> code, isDict |-> TRUE, items |-> items, nextFlag |-> flag]

\* the synthetic envelope of the client's error branches
ErrorEnvelope == Envelope("error", <<>>, FALSE)

\* an envelope whose data is a list, not a dict
ListEnvelope ==
    [kind |-> "resp", code |-> SUCCESS, isDict |-> FALSE, items |-> <<>>, nextFlag |-> FALSE]

\* the call raised instead of returning
Raised == [kind |-> "exc", code |-> "", isDict |-> FALSE, items |-> <<>>, nextFlag |-> FALSE]

----------------------------------------------------------------------------
\* BitgetClient.get_futures_history_orders and BitgetClient.get_futures_fills

\* the data member of an envelope: a dict with the list of the endpoint
\* (orderList, fillList) and nextFlag, a list, or null
DictData(items, flag) == [type |-> "dict", list |-> items, nextFlag |-> flag]
ListData == [type |-> "list"]
NullData == [type |-> "null"]

\* a JSON object with code, msg and data
Json(code, msg, data) == [code |-> code, msg |-> msg, data |-> data]

\* what the HTTP exchange of one call comes to:
\*   "setup"      an exception before the request is sent (params, headers)
\*   "transport"  requests.get raised
\*   "status"     raise_for_status raised on the status
\*   "invalid"    status 200, the body is not JSON
\*   "nonobject"  status 200, the body is JSON but not an object
\*   "json"       status 200, the body is the object body
Http(kind, status, body) == [kind |-> kind, status |-> status, body |-> body]

\* the operation raised
ClientRaised == [raised |-> TRUE]

\* an empty success envelope instead of the error code
SyntheticAsSuccess(use_fills, msg) ==
    Json(SUCCESS, msg, IF use_fills THEN DictData(<<>>, FALSE) ELSE ListData)

\* {"code": "error", "msg": ..., "data": []} and
\* {"code": "error", "msg": ..., "data": {"fillList": []}}
Synthetic(use_fills, msg) ==
    Json("error", msg, IF use_fills THEN DictData(<<>>, FALSE) ELSE ListData)

get_futures_history_orders(h) ==
    IF h.kind = "setup" THEN ClientRaised
    ELSE IF h.kind # "json" THEN Synthetic(FALSE, h.kind)
    ELSE h.body

get_futures_fills(h) ==
    IF h.kind = "setup" THEN ClientRaised
    ELSE IF h.kind # "json" THEN Synthetic(TRUE, h.kind)
    ELSE IF h.body.code # SUCCESS THEN Synthetic(TRUE, h.body.msg)
    ELSE IF h.body.data.type # "dict" THEN Synthetic(TRUE, "AttributeError")
    ELSE h.body

----------------------------------------------------------------------------
\* BitgetClient.fetch_all_futures_history_for_symbol

PagInit == [page |-> 0, all_items |-> <<>>, end_id |-> None, status |-> "run"]

\* no paginator run is being followed
PagNone == [page |-> 0, all_items |-> <<>>, end_id |-> None, status |-> "idle"]

\* the cursor taken from orderId in both modes
CursorOfOrderId(item, use_fills) == Get(item, "orderId")

\* the id of the last item that becomes the next cursor
CursorOf(item, use_fills) ==
    IF use_fills THEN Or(Get(item, "tradeId"), Get(item, "fillId"))
    ELSE Get(item, "orderId")

\* the page-size test alone, nextFlag ignored
LastPageShortOnly(next_flag, n, per_page) == n < per_page

\* the nextFlag test alone, the page size ignored
LastPageFlagOnly(next_flag, n, per_page) == ~next_flag

\* the test that ends the pagination after a page has been appended
LastPage(next_flag, n, per_page) == ~next_flag \/ n < per_page

\* a non-success code logged and the loop carried on
OnApiErrorContinues(st, page) == [st EXCEPT !.page = page]

\* if resp.get('code') != '00000': log and break
OnApiError(st, page) == [st EXCEPT !.page = page, !.status = "done"]

\* One iteration of the while loop, given what the client call produced.
\* status: "run" the loop goes on, "done" it returned all_items,
\* "raised" an exception left the function.
PagStep(st, c, r) ==
    LET page  == st.page + 1
        items == IF r.isDict THEN r.items ELSE <<>>
        next_flag == IF r.isDict THEN r.nextFlag ELSE FALSE
        all   == st.all_items \o items
        lastItem == items[Len(items)]
        end_id == CursorOf(lastItem, c.use_fills)
    IN  IF r.kind = "exc"
          THEN [st EXCEPT !.page = page]
        ELSE IF r.code # SUCCESS
          THEN OnApiError(st, page)
        ELSE IF items = <<>>
          THEN [st EXCEPT !.page = page, !.status = "done"]
        ELSE IF LastPage(next_flag, Len(items), c.per_page)
          THEN [st EXCEPT !.page = page, !.all_items = all, !.status = "done"]
        ELSE IF ~IsDict(lastItem)
          THEN [st EXCEPT !.page = page, !.all_items = all, !.status = "raised"]
        ELSE IF end_id = None
          THEN [st EXCEPT !.page = page, !.all_items = all, !.end_id = end_id,
                          !.status = "done"]
        ELSE IF c.max_pages # None /\ page >= c.max_pages
          THEN [st EXCEPT !.page = page, !.all_items = all, !.end_id = end_id,
                          !.status = "done"]
        ELSE [st EXCEPT !.page = page, !.all_items = all, !.end_id = end_id]

\* the whole loop over a script of client outcomes
RECURSIVE PagRun(_, _, _)
PagRun(st, c, script) ==
    IF script = <<>> \/ st.status # "run" THEN st
    ELSE PagRun(PagStep(st, c, Head(script)), c, Tail(script))

\* the HTTP requests a run sends on a script: a call that raises does so
\* before its request is sent
Sent(c, script) ==
    Cardinality({k \in 1..Min(PagRun(PagInit, c, script).page, Len(script)) :
                    script[k].kind = "resp"})


----------------------------------------------------------------------------
\* Merge stage: the three dedup loops and the two sorts

\* for order in all_orders: if key not in seen: seen.add(key); append
RECURSIVE DedupBy(_, _, _)
DedupBy(orders, keys, seen) ==
    IF orders = <<>> THEN <<>>
    ELSE IF Head(keys) \in seen
           THEN DedupBy(Tail(orders), Tail(keys), seen)
           ELSE <<Head(orders)>> \o DedupBy(Tail(orders), Tail(keys), seen \cup {Head(keys)})

\* main.py: key = (symbol, orderId)
LocalKey(order) == <<Get(order, "symbol"), Get(order, "orderId")>>

\* the loop started at the second record
DedupLocalSkipFirst(orders) ==
    IF orders = <<>> THEN <<>>
    ELSE DedupBy(Tail(orders), [i \in 1..(Len(orders) - 1) |-> LocalKey(orders[i + 1])], {})

DedupLocal(orders) ==
    DedupBy(orders, [i \in 1..Len(orders) |-> LocalKey(orders[i])], {})

\* collector: key = (symbol, orderId or order_id or id)
CollectorKey(order) ==
    <<Get(order, "symbol"),
      Or(Or(Get(order, "orderId"), Get(order, "order_id")), Get(order, "id"))>>

DedupCollector(orders) ==
    DedupBy(orders, [i \in 1..Len(orders) |-> CollectorKey(orders[i])], {})

\* worker: key = (symbol, orderId or tradeId or fillId or id, cTime or timestamp)
WorkerKey(order) ==
    <<Get(order, "symbol"),
      Or(Or(Or(Get(order, "orderId"), Get(order, "tradeId")), Get(order, "fillId")),
         Get(order, "id")),
      Or(Get(order, "cTime"), Get(order, "timestamp"))>>

DedupWorker(orders) ==
    DedupBy(orders, [i \in 1..Len(orders) |-> WorkerKey(orders[i])], {})

\* list.sort(key=..., reverse=True): descending and stable.  keys[i] is the
\* key of orders[i]; the result is the order of the indices.
RECURSIVE SortedIndices(_, _)
SortedIndices(keys, n) ==
    IF n = 0 THEN <<>>
    ELSE LET before == SortedIndices(keys, n - 1)
             NotBelow(i) == keys[i] >= keys[n]
             Below(i) == keys[i] < keys[n]
         IN  SelectSeq(before, NotBelow) \o <<n>> \o SelectSeq(before, Below)

SortDesc(orders, keys) ==
    LET idx == SortedIndices(keys, Len(orders))
    IN  [i \in 1..Len(orders) |-> orders[idx[i]]]

\* main.py: key=lambda x: int(x.get('ctime') or x.get('cTime') or 0)
LocalSortKey(order) == Or(Or(Get(order, "ctime"), Get(order, "cTime")), 0)

SortLocal(orders) ==
    SortDesc(orders, [i \in 1..Len(orders) |-> LocalSortKey(orders[i])])

\* collector: int(ctime or cTime or timestamp or createTime or 0)
get_timestamp(order) ==
    Or(Or(Or(Or(Get(order, "ctime"), Get(order, "cTime")), Get(order, "timestamp")),
          Get(order, "createTime")), 0)

\* int(...) raises ValueError on the timestamp of the record
TimestampRaises(order) == get_timestamp(order) = NotANumber

SortCollector(orders) ==
    SortDesc(orders, [i \in 1..Len(orders) |-> get_timestamp(orders[i])])

----------------------------------------------------------------------------
\* extract_futures_orders_local

\* the two worker caps of the function
PROD_WORKERS == 10
TEST_WORKERS == 3
\* symbols kept in test mode
TEST_SYMBOLS == 5

\* the paginator parameters the task passes (max_pages and use_fills default)
LocalConfig == [per_page |-> PerPage, max_pages |-> None, use_fills |-> TRUE]

\* the symbol set only on the records whose payload has none
StampSymbolIfMissing(orders, symbol) ==
    [i \in 1..Len(orders) |->
        IF "symbol" \in DOMAIN orders[i] THEN orders[i]
        ELSE SetField(orders[i], "symbol", symbol)]

\* for order in orders: order['symbol'] = symbol
StampSymbol(orders, symbol) ==
    [i \in 1..Len(orders) |-> SetField(orders[i], "symbol", symbol)]

\* the body of a pool task: the paginator, the stamping, and the except
\* branch that turns any exception into an empty list
fetch_symbol_futures_orders(symbol, script) ==
    LET fin == PagRun(PagInit, LocalConfig, script)
    IN  IF fin.status = "raised" THEN <<>>
        ELSE IF \E i \in 1..Len(fin.all_items) : ~IsDict(fin.all_items[i]) THEN <<>>
        ELSE StampSymbol(fin.all_items, symbol)

\* every client call of the script failed: an exception or a non-success code
AlwaysErrors(script) ==
    \A k \in 1..Len(script) : script[k].kind = "exc" \/ script[k].code # SUCCESS

\* test mode without the cut to the first symbols
SelectSymbolsAll(syms, test) == syms

SelectSymbols(syms, test) ==
    IF test /\ Len(syms) > TEST_SYMBOLS THEN SubSeq(syms, 1, TEST_SYMBOLS) ELSE syms

\* a pool as wide as the symbol list
MaxWorkersUncapped(selected, test) == Len(selected)

MaxWorkers(selected, test) ==
    IF test THEN Min(Len(selected), TEST_WORKERS) ELSE Min(Len(selected), PROD_WORKERS)

FailureResult ==
    [success |-> FALSE, data |-> <<>>, total_orders |-> 0]

LocalResult(deduped, selected) ==
    [success |-> TRUE, data |-> deduped, total_orders |-> Len(deduped),
     processed_symbols |-> Len(selected)]

\* ---- the exchanges the fan-out and the workers run against ----

\* the fills the exchange holds for a symbol: two fills of order 3 and one
\* fill whose payload carries no orderId
Ledger ==
    << [orderId |-> 3, tradeId |-> 1, cTime |-> 1],
       [orderId |-> 3, tradeId |-> 2, cTime |-> 2],
       [tradeId |-> 3, timestamp |-> 3] >>

\* a page is a window of the ledger of at most per_page entries
Windows(ledger) ==
    {w \in {SubSeq(ledger, i, j) : i \in 1..Len(ledger), j \in 0..Len(ledger)} :
        Len(w) <= PerPage}

LedgerResponses ==
    {Envelope(SUCCESS, w, flag) : w \in Windows(Ledger), flag \in BOOLEAN}
        \cup {ErrorEnvelope, Raised, Envelope(SUCCESS, <<NonDict>>, FALSE)}

\* the scripts on which the paginator returns at the last outcome
Complete(script) ==
    /\ script # <<>>
    /\ PagRun(PagInit, LocalConfig, script).status # "run"
    /\ PagRun(PagInit, LocalConfig, SubSeq(script, 1, Len(script) - 1)).status = "run"

LedgerApi == {s \in SeqsUpTo(LedgerResponses, MaxTaskFetch) : Complete(s)}

\* an exchange that rejects every request
RejectApi == {<<ErrorEnvelope>>}

\* a fill whose payload carries a symbol field of its own, naming another
\* symbol than the one it is fetched for
Relabelled == [symbol |-> 2, tradeId |-> 4, cTime |-> 4]

\* a fill whose cTime is no number
Garbled == [tradeId |-> 5, orderId |-> 5, cTime |-> NotANumber]

\* an exchange with one fill per symbol, or a rejection
SmallApi ==
    {<<ErrorEnvelope>>, <<Envelope(SUCCESS, <<Ledger[1]>>, FALSE)>>,
     <<Envelope(SUCCESS, <<Relabelled>>, FALSE)>>}

\* what the batch workers meet: a rejection, two pages that overlap in
\* their boundary fill, a page with an entry that is no dict
LambdaApi ==
    { <<ErrorEnvelope>>,
      <<Envelope(SUCCESS, SubSeq(Ledger, 1, PerPage), TRUE),
        Envelope(SUCCESS, SubSeq(Ledger, PerPage, Min(PerPage + 1, Len(Ledger))), FALSE)>>,
      <<Envelope(SUCCESS, <<NonDict>>, FALSE)>>,
      <<Envelope(SUCCESS, <<Relabelled>>, FALSE)>>,
      <<Envelope(SUCCESS, <<Garbled>>, FALSE)>> }

\* the scripts of client outcomes an exchange may play to one paginator run
Scripts(name) ==
    CASE name = "ledger" -> LedgerApi
      [] name = "small"  -> SmallApi
      [] name = "reject" -> RejectApi
      [] name = "lambda" -> LambdaApi
      [] name = "flaky"  -> SmallApi
      [] OTHER -> {}

\* whether a client call for the symbol may raise before its request is
\* sent (the signing of the headers, symbol.strip(), int(limit))
CanRaise(name, symbol) ==
    \/ name \in {"ledger", "flaky"}
    \/ name = "reject" /\ symbol = 1

\* the tasks that hold a worker thread of the pool
InFlight == {i \in DOMAIN task : task[i].st \in {"running", "backoff"}}

\* the next future a free worker thread takes from the executor's queue
Queued == {i \in DOMAIN task : task[i].st = "queued"}

\* Entry up to the submission of the tasks: symbol discovery when none are
\* given, selection, sizing of the pool, executor.submit for every symbol.
LocalStart ==
    /\ lpc = "start"
    /\ \E found \in {<<>>, <<2>>}, sent \in {0, 1} :
          LET syms == IF symbols = <<>> THEN found ELSE symbols
              sel  == SelectSymbols(syms, test_mode)
          IN  /\ found # <<>> => sent = 1
              /\ requests' = IF symbols = <<>> THEN requests + sent ELSE requests
              /\ IF syms = <<>>
                   THEN /\ lpc' = "done"
                        /\ result' = FailureResult
                        /\ UNCHANGED <<symbols, selected_symbols, max_workers, task, runs>>
                   ELSE /\ lpc' = "fanout"
                        /\ symbols' = syms
                        /\ selected_symbols' = sel
                        /\ max_workers' = MaxWorkers(sel, test_mode)
                        /\ task' = [i \in 1..Len(sel) |->
                                      [st |-> "queued", orders |-> <<>>, errored |-> FALSE]]
                        /\ runs' = [i \in 1..Len(sel) |-> 0]
                        /\ UNCHANGED result
    /\ UNCHANGED <<test_mode, api, all_orders>>
    /\ UNCHANGED <<pagVars, lambdaVars, dedupVars, awsVars, httpVars, clientVars>>

\* a worker thread of the pool picks up the oldest queued task
TaskStart(i) ==
    /\ lpc = "fanout"
    /\ task[i].st = "queued"
    /\ \A j \in Queued : i <= j
    /\ Cardinality(InFlight) < max_workers
    /\ task' = [task EXCEPT ![i].st = "running"]
    /\ runs' = [runs EXCEPT ![i] = @ + 1]
    /\ UNCHANGED <<lpc, symbols, test_mode, api, selected_symbols, max_workers,
                   all_orders, result>>
    /\ UNCHANGED <<pagVars, lambdaVars, dedupVars, awsVars, httpVars, clientVars, requests>>

\* the task runs to its return against some script of the exchange
TaskFinish(i) ==
    /\ lpc = "fanout"
    /\ task[i].st = "running"
    /\ \E script \in Scripts(api) :
          /\ task' = [task EXCEPT ![i] =
                        [st |-> "done",
                         orders |-> fetch_symbol_futures_orders(selected_symbols[i], script),
                         errored |-> AlwaysErrors(script)]]
          /\ requests' = requests + Sent(LocalConfig, script)
    /\ UNCHANGED <<lpc, symbols, test_mode, api, selected_symbols, max_workers,
                   runs, all_orders, result>>
    /\ UNCHANGED <<pagVars, lambdaVars, dedupVars, awsVars, httpVars, clientVars>>

\* a client call of the running task raises: the paginator's except branch,
\* logger.exception and time.sleep(1.0)
TaskRaise(i) ==
    /\ lpc = "fanout"
    /\ task[i].st = "running"
    /\ CanRaise(api, selected_symbols[i])
    /\ task' = [task EXCEPT ![i].st = "backoff"]
    /\ UNCHANGED <<lpc, symbols, test_mode, api, selected_symbols, max_workers,
                   runs, all_orders, result>>
    /\ UNCHANGED <<pagVars, lambdaVars, dedupVars, awsVars, httpVars, clientVars, requests>>

\* the sleep is over: continue, the next iteration of the while loop
TaskRetry(i) ==
    /\ lpc = "fanout"
    /\ task[i].st = "backoff"
    /\ task' = [task EXCEPT ![i].st = "running"]
    /\ UNCHANGED <<lpc, symbols, test_mode, api, selected_symbols, max_workers,
                   runs, all_orders, result>>
    /\ UNCHANGED <<pagVars, lambdaVars, dedupVars, awsVars, httpVars, clientVars, requests>>

\* all_orders assigned instead of extended
JoinOverwrite(i) ==
    /\ lpc = "fanout"
    /\ task[i].st = "done"
    /\ task' = [task EXCEPT ![i].st = "joined"]
    /\ all_orders' = task[i].orders
    /\ UNCHANGED <<lpc, symbols, test_mode, api, selected_symbols, max_workers,
                   runs, result>>
    /\ UNCHANGED <<pagVars, lambdaVars, dedupVars, awsVars, httpVars, clientVars, requests>>

\* the list of the finished future appended twice
JoinTwice(i) ==
    /\ lpc = "fanout"
    /\ task[i].st = "done"
    /\ task' = [task EXCEPT ![i].st = "joined"]
    /\ all_orders' = all_orders \o task[i].orders \o task[i].orders
    /\ UNCHANGED <<lpc, symbols, test_mode, api, selected_symbols, max_workers,
                   runs, result>>
    /\ UNCHANGED <<pagVars, lambdaVars, dedupVars, awsVars, httpVars, clientVars, requests>>

\* as_completed hands a finished future to the main thread
Join(i) ==
    /\ lpc = "fanout"
    /\ task[i].st = "done"
    /\ task' = [task EXCEPT ![i].st = "joined"]
    /\ all_orders' = all_orders \o task[i].orders
    /\ UNCHANGED <<lpc, symbols, test_mode, api, selected_symbols, max_workers,
                   runs, result>>
    /\ UNCHANGED <<pagVars, lambdaVars, dedupVars, awsVars, httpVars, clientVars, requests>>

\* after the with block: dedup, sort, save, return
LocalMerge ==
    /\ lpc = "fanout"
    /\ \A i \in DOMAIN task : task[i].st = "joined"
    /\ lpc' = "done"
    /\ result' = LocalResult(SortLocal(DedupLocal(all_orders)), selected_symbols)
    /\ UNCHANGED <<symbols, test_mode, api, selected_symbols, max_workers, task,
                   runs, all_orders>>
    /\ UNCHANGED <<pagVars, lambdaVars, dedupVars, awsVars, httpVars, clientVars, requests>>

LocalNext ==
    \/ LocalStart
    \/ \E i \in DOMAIN task : TaskStart(i)
    \/ \E i \in DOMAIN task : TaskRaise(i)
    \/ \E i \in DOMAIN task : TaskRetry(i)
    \/ \E i \in DOMAIN task : TaskFinish(i)
    \/ \E i \in DOMAIN task : Join(i)
    \/ LocalMerge


----------------------------------------------------------------------------
\* worker/app.py lambda_handler

WorkerConfig(use_fills) ==
    [per_page |-> PerPage, max_pages |-> None, use_fills |-> use_fills]

\* the stamping also overwrites the payload's cTime with the worker's id
StampWorkerOverwrites(orders, symbol, worker_id, use_fills) ==
    [i \in 1..Len(orders) |->
        SetField(SetField(SetField(SetField(orders[i], "symbol", symbol),
                                   "worker_id", worker_id),
                          "data_type", IF use_fills THEN "fill" ELSE "order"),
                 "cTime", worker_id)]

\* order['symbol'] = symbol; order['worker_id'] = ...; order['data_type'] = ...
StampWorker(orders, symbol, worker_id, use_fills) ==
    [i \in 1..Len(orders) |->
        SetField(SetField(SetField(orders[i], "symbol", symbol), "worker_id", worker_id),
                 "data_type", IF use_fills THEN "fill" ELSE "order")]

\* the try block of one symbol: ok is FALSE when the except branch ran
WorkerSymbol(symbol, script, worker_id, use_fills) ==
    LET fin == PagRun(PagInit, WorkerConfig(use_fills), script)
    IN  IF fin.status = "raised" THEN [ok |-> FALSE, orders |-> <<>>]
        ELSE IF \E i \in 1..Len(fin.all_items) : ~IsDict(fin.all_items[i])
          THEN [ok |-> FALSE, orders |-> <<>>]
        ELSE [ok |-> TRUE, orders |-> StampWorker(fin.all_items, symbol, worker_id, use_fills)]

\* for symbol in symbols: ... from the k-th symbol on
RECURSIVE WorkerLoop(_, _, _, _, _)
WorkerLoop(event, scripts, k, orders, failed) ==
    IF k > Len(event.symbols) THEN [all_orders |-> orders, failed_symbols |-> failed]
    ELSE LET one == WorkerSymbol(event.symbols[k], scripts[k], event.worker_id,
                                 event.use_fills)
         IN  IF one.ok
               THEN WorkerLoop(event, scripts, k + 1, orders \o one.orders, failed)
               ELSE WorkerLoop(event, scripts, k + 1, orders,
                               Append(failed, event.symbols[k]))

WorkerFailure(worker_id, error) ==
    [success |-> FALSE, worker_id |-> worker_id, error |-> error,
     processed_symbols |-> 0, total_orders |-> 0, orders |-> <<>>]

WorkerResult(event, deduped, failed) ==
    [success |-> TRUE, worker_id |-> event.worker_id,
     processed_symbols |-> Len(event.symbols), failed_symbols |-> failed,
     total_orders |-> Len(deduped), orders |-> deduped, use_fills |-> event.use_fills]

\* event.is_list is FALSE when event['symbols'] is a truthy value that is
\* no list: len(symbols) raises and the outer except branch answers
\* the HTTP requests the handler sends while it serves the event
WorkerSent(event, scripts) ==
    IF ~event.is_list \/ event.symbols = <<>> THEN 0
    ELSE LET n == Len(event.symbols)
             sent == [k \in 1..n |-> Sent(WorkerConfig(event.use_fills), scripts[k])]
             prefix[k \in 0..n] == IF k = 0 THEN 0 ELSE prefix[k - 1] + sent[k]
         IN  prefix[n]

worker_lambda_handler(event, scripts) ==
    IF ~event.is_list THEN WorkerFailure(event.worker_id, "TypeError")
    ELSE IF event.symbols = <<>> THEN WorkerFailure(event.worker_id, "No symbols provided")
    ELSE LET loop == WorkerLoop(event, scripts, 1, <<>>, <<>>)
         IN  WorkerResult(event, DedupWorker(loop.all_orders), loop.failed_symbols)

----------------------------------------------------------------------------
\* collector/app.py lambda_handler

\* result_data = worker_result['body'] if it is a dict with a body
ResultData(worker_result) ==
    IF IsDict(worker_result) /\ "body" \in DOMAIN worker_result
      THEN worker_result.body ELSE worker_result

\* success and result_data.get('orders')
Usable(result_data) ==
    /\ "success" \in DOMAIN result_data /\ result_data.success
    /\ "orders" \in DOMAIN result_data /\ result_data.orders # <<>>

\* the loop counting every result with success true as processed
RECURSIVE CollectorLoopBySuccess(_, _, _, _, _)
CollectorLoopBySuccess(event, k, orders, processed, failed) ==
    IF k > Len(event)
      THEN [all_orders |-> orders, processed_symbols |-> processed,
            failed_symbols |-> failed]
    ELSE IF Get(ResultData(event[k]), "success") = TRUE
      THEN CollectorLoopBySuccess(event, k + 1,
                                  orders \o ResultData(event[k]).orders,
                                  processed + 1, failed)
      ELSE CollectorLoopBySuccess(event, k + 1, orders, processed, failed + 1)

RECURSIVE CollectorLoop(_, _, _, _, _)
CollectorLoop(event, k, orders, processed, failed) ==
    IF k > Len(event)
      THEN [all_orders |-> orders, processed_symbols |-> processed,
            failed_symbols |-> failed]
    ELSE IF Usable(ResultData(event[k]))
      THEN CollectorLoop(event, k + 1, orders \o ResultData(event[k]).orders,
                         processed + 1, failed)
      ELSE CollectorLoop(event, k + 1, orders, processed, failed + 1)

\* what sends the handler to its except branch: an entry on which
\* result_data.get raises, or a record of the deduplicated list on whose
\* timestamp the sort key raises
CollectorRaises(event) ==
    \/ \E k \in 1..Len(event) : ~IsDict(ResultData(event[k]))
    \/ LET deduped == DedupCollector(CollectorLoop(event, 1, <<>>, 0, 0).all_orders)
       IN  \E i \in 1..Len(deduped) : TimestampRaises(deduped[i])

\* the except branch answering for one failed symbol whatever the event
CollectorFailureOne(event) ==
    [success |-> FALSE, data |-> <<>>, total_orders |-> 0, processed_symbols |-> 0,
     failed_symbols |-> 1]

CollectorFailure(event) ==
    [success |-> FALSE, data |-> <<>>, total_orders |-> 0, processed_symbols |-> 0,
     failed_symbols |-> Len(event)]

\* the two counts swapped
CollectorResultSwapped(deduped, processed, failed) ==
    [success |-> TRUE, data |-> deduped, total_orders |-> processed,
     processed_symbols |-> Len(deduped), failed_symbols |-> failed]

CollectorResult(deduped, processed, failed) ==
    [success |-> TRUE, data |-> deduped, total_orders |-> Len(deduped),
     processed_symbols |-> processed, failed_symbols |-> failed]

collector_lambda_handler(event) ==
    IF CollectorRaises(event) THEN CollectorFailure(event)
    ELSE LET loop == CollectorLoop(event, 1, <<>>, 0, 0)
         IN  CollectorResult(SortCollector(DedupCollector(loop.all_orders)),
                             loop.processed_symbols, loop.failed_symbols)

\* ---- the lambdas as steps of the distributed path ----

\* the orchestrator invokes the worker on one batch and keeps its output,
\* bare or wrapped in a body
WorkerInvoke ==
    /\ wpc = "map"
    /\ Len(wresults) < MaxBatches
    /\ \E syms \in {<<>>, <<1>>, <<1, 2>>}, fills \in BOOLEAN, is_list \in BOOLEAN,
          wrap \in BOOLEAN :
          /\ ~is_list => syms = <<>>
          /\ \E scripts \in [1..Len(syms) -> Scripts(api)] :
                LET event == [symbols |-> syms, use_fills |-> fills, is_list |-> is_list,
                              worker_id |-> Len(wresults) + 1]
                    out == worker_lambda_handler(event, scripts)
                    sent == WorkerSent(event, scripts)
                IN  /\ wresults' = Append(wresults, IF wrap THEN [body |-> out] ELSE out)
                    /\ wlog' = Append(wlog, [symbols |-> syms, is_list |-> is_list,
                                              requests |-> sent])
                    /\ requests' = requests + sent
    /\ UNCHANGED <<wpc, cresult, api>>
    /\ UNCHANGED <<pagVars, dedupVars, awsVars, httpVars, clientVars>>
    /\ UNCHANGED <<lpc, symbols, test_mode, selected_symbols, max_workers, task, runs,
                   all_orders, result>>

\* a batch for which the orchestrator has no dict to hand on
WorkerLost ==
    /\ wpc = "map"
    /\ Len(wresults) < MaxBatches
    /\ wresults' = Append(wresults, NonDict)
    /\ wlog' = Append(wlog, [symbols |-> <<1>>, is_list |-> TRUE, requests |-> 0])
    /\ UNCHANGED <<wpc, cresult>>
    /\ UNCHANGED <<pagVars, localVars, dedupVars, awsVars, httpVars, clientVars, requests>>

\* the collector is invoked on the list of worker outputs
Collect ==
    /\ wpc = "map"
    /\ wpc' = "done"
    /\ cresult' = collector_lambda_handler(wresults)
    /\ UNCHANGED <<wresults, wlog>>
    /\ UNCHANGED <<pagVars, localVars, dedupVars, awsVars, httpVars, clientVars, requests>>

LambdaNext == WorkerInvoke \/ WorkerLost \/ Collect

----------------------------------------------------------------------------
\* The dedup loops applied to a given list, once and to their own output

ApplyDedup ==
    /\ dpc = "input"
    /\ dpc' = "done"
    /\ dd_once' = [local |-> DedupLocal(dd_in), collector |-> DedupCollector(dd_in),
                   worker |-> DedupWorker(dd_in)]
    /\ dd_twice' = [local |-> DedupLocal(DedupLocal(dd_in)),
                    collector |-> DedupCollector(DedupCollector(dd_in)),
                    worker |-> DedupWorker(DedupWorker(dd_in))]
    /\ UNCHANGED dd_in
    /\ UNCHANGED <<pagVars, localVars, lambdaVars, awsVars, httpVars, clientVars, requests>>

----------------------------------------------------------------------------
\* extract_orders_aws

BATCH_SIZE == 25

\* the division rounded down: the symbols after the last full batch are left out
BatchesFullOnly(syms) ==
    [b \in 1..(Len(syms) \div BATCH_SIZE) |->
        SubSeq(syms, (b - 1) * BATCH_SIZE + 1, b * BATCH_SIZE)]

\* for i in range(0, len(symbols), BATCH_SIZE): symbols[i:i + BATCH_SIZE]
Batches(syms) ==
    [b \in 1..((Len(syms) + BATCH_SIZE - 1) \div BATCH_SIZE) |->
        SubSeq(syms, (b - 1) * BATCH_SIZE + 1, Min(b * BATCH_SIZE, Len(syms)))]

\* the batch size the /extract/massive endpoint estimates with
ESTIMATE_BATCH == 25

\* len(symbols) // 25 + (1 if len(symbols) % 25 else 0)
estimated_batches(n) ==
    (n \div ESTIMATE_BATCH) + (IF n % ESTIMATE_BATCH # 0 THEN 1 ELSE 0)

\* the except branch: extract_futures_orders_local(symbols=symbols, test_mode=True)
Fallback(cause) ==
    /\ apc' = "fallback"
    /\ acause' = cause
    /\ lpc' = "start"
    /\ symbols' = asymbols
    /\ test_mode' = TRUE
    /\ UNCHANGED <<api, selected_symbols, max_workers, task, runs, all_orders, result>>

\* batching and start_execution, which returns or raises
AwsStart ==
    /\ apc = "start"
    /\ symbol_batches' = Batches(asymbols)
    /\ \E started \in BOOLEAN :
          IF started
            THEN /\ apc' = "poll"
                 /\ UNCHANGED <<acause, localVars>>
            ELSE Fallback("start_execution")
    /\ UNCHANGED <<asymbols, polls, astatus, aresult>>
    /\ UNCHANGED <<pagVars, lambdaVars, dedupVars, httpVars, clientVars, requests>>

\* what the workflow can hand back as its output: a collector result
WorkflowOutputs ==
    { CollectorResult(<<[symbol |-> 1, tradeId |-> 1, cTime |-> 1]>>, 1, 0),
      CollectorFailure(<<NonDict>>) }

\* the statuses describe_execution reports
Statuses ==
    {"RUNNING", "PENDING_REDRIVE", "SUCCEEDED", "FAILED", "TIMED_OUT", "ABORTED"}

\* the status tests without ABORTED
PollOutcomeAbortedSleeps(status) ==
    CASE status = "SUCCEEDED" -> "read"
      [] status = "FAILED" -> "raise"
      [] status = "TIMED_OUT" -> "raise"
      [] OTHER -> "sleep"

\* if status == 'SUCCEEDED' ... elif 'FAILED' ... elif in ['TIMED_OUT',
\* 'ABORTED'] ...; otherwise time.sleep(2) and the next round
PollOutcome(status) ==
    CASE status = "SUCCEEDED" -> "read"
      [] status = "FAILED" -> "raise"
      [] status \in {"TIMED_OUT", "ABORTED"} -> "raise"
      [] OTHER -> "sleep"

\* one round of the while loop: describe_execution, which returns a status
\* or raises, and the status tests
AwsPoll ==
    /\ apc = "poll"
    /\ polls' = Min(polls + 1, MaxPolls + 1)
    /\ \E status \in Statuses \cup {"raise"} :
          IF status = "raise"
            THEN /\ Fallback("describe_execution")
                 /\ UNCHANGED <<astatus, aresult>>
            ELSE /\ astatus' = status
                 /\ CASE PollOutcome(status) = "sleep" ->
                          UNCHANGED <<apc, acause, aresult, localVars>>
                     [] PollOutcome(status) = "read" ->
                          /\ apc' = "store"
                          /\ \E out \in WorkflowOutputs : aresult' = out
                          /\ UNCHANGED <<acause, localVars>>
                     [] OTHER ->
                          /\ Fallback(status)
                          /\ UNCHANGED aresult
    /\ UNCHANGED <<asymbols, symbol_batches>>
    /\ UNCHANGED <<pagVars, lambdaVars, dedupVars, httpVars, clientVars, requests>>

\* the object store calls, any of which may raise, and the return
AwsStore ==
    /\ apc = "store"
    /\ \E stored \in BOOLEAN :
          IF stored
            THEN /\ apc' = "done"
                 /\ aresult' = SetField(SetField(aresult, "s3_location", "s3"),
                                        "extraction_method",
                                        "step_functions_massive_parallel")
                 /\ UNCHANGED <<acause, localVars>>
            ELSE /\ Fallback("s3")
                 /\ UNCHANGED aresult
    /\ UNCHANGED <<asymbols, symbol_batches, polls, astatus>>
    /\ UNCHANGED <<pagVars, lambdaVars, dedupVars, httpVars, clientVars, requests>>

\* the fallback call has returned: its dict is what the function returns
AwsReturn ==
    /\ apc = "fallback"
    /\ lpc = "done"
    /\ apc' = "done"
    /\ aresult' = result
    /\ UNCHANGED <<asymbols, symbol_batches, polls, astatus, acause>>
    /\ UNCHANGED <<pagVars, localVars, lambdaVars, dedupVars, httpVars, clientVars, requests>>

AwsNext == AwsStart \/ AwsPoll \/ AwsStore \/ AwsReturn

----------------------------------------------------------------------------
\* POST /extract (extract_orders)

\* a request without the validation
RejectsNothing(syms) == FALSE

\* if not request.symbols: raise HTTPException(status_code=400, ...)
Rejects(syms) == syms = <<>>

\* the handler up to its call of one of the two extraction functions
ExtractOrders ==
    /\ hpc = "request"
    /\ IF Rejects(hsymbols)
         THEN /\ hpc' = "responded"
              /\ hstatus' = 400
              /\ UNCHANGED <<localVars, awsVars>>
         ELSE /\ hpc' = "call"
              /\ UNCHANGED hstatus
              /\ IF hdebug
                   THEN /\ lpc' = "start"
                        /\ symbols' = hsymbols
                        /\ test_mode' = FALSE
                        /\ UNCHANGED <<api, selected_symbols, max_workers, task, runs,
                                       all_orders, result>>
                        /\ UNCHANGED awsVars
                   ELSE /\ apc' = "start"
                        /\ asymbols' = hsymbols
                        /\ UNCHANGED <<symbol_batches, polls, astatus, acause, aresult>>
                        /\ UNCHANGED localVars
    /\ UNCHANGED <<hsymbols, hdebug, requests>>
    /\ UNCHANGED <<pagVars, lambdaVars, dedupVars, clientVars>>

\* the called function has returned: return ExtractResponse(**result)
ExtractRespond ==
    /\ hpc = "call"
    /\ IF hdebug THEN lpc = "done" ELSE apc = "done"
    /\ hpc' = "responded"
    /\ hstatus' = 200
    /\ UNCHANGED <<hsymbols, hdebug, requests>>
    /\ UNCHANGED <<pagVars, localVars, lambdaVars, dedupVars, awsVars, clientVars>>

HttpNext == ExtractOrders \/ ExtractRespond

----------------------------------------------------------------------------
\* One call of a client operation

ClientIdle ==
    /\ kpc = "idle" /\ kfills = FALSE /\ khttp = Http("none", 0, NullData)
    /\ kret = ClientRaised

\* the envelopes the exchange may answer with
Bodies ==
    {Json(code, code, data) :
        code \in {SUCCESS, "40001"},
        data \in {DictData(<<>>, FALSE), DictData(<<[tradeId |-> 1, cTime |-> 1]>>, TRUE),
                  ListData, NullData}}

HttpOutcomes ==
    {Http("setup", 0, NullData), Http("transport", 0, NullData),
     Http("invalid", 200, NullData), Http("nonobject", 200, NullData)}
        \cup {Http("status", st, b) : st \in {404, 500}, b \in {NullData} \cup Bodies}
        \cup {Http("json", 200, b) : b \in Bodies}

ClientCall ==
    /\ kpc = "call"
    /\ kpc' = "done"
    /\ kret' = IF kfills THEN get_futures_fills(khttp)
                         ELSE get_futures_history_orders(khttp)
    /\ requests' = IF khttp.kind = "setup" THEN requests ELSE requests + 1
    /\ UNCHANGED <<kfills, khttp>>
    /\ UNCHANGED <<pagVars, localVars, lambdaVars, dedupVars, awsVars, httpVars>>

----------------------------------------------------------------------------
\* One paginator run followed call by call

\* one iteration: the client call and the handling of its outcome
PageFetch(responses) ==
    /\ pg.status = "run"
    /\ fetches < MaxFetch
    /\ \E r \in responses :
          /\ Len(r.items) <= Limit(cfg.per_page)
          /\ pg' = PagStep(pg, cfg, r)
          /\ last' = r
          /\ got' = IF r.kind = "resp" /\ r.code = SUCCESS /\ r.isDict
                      THEN got \o r.items ELSE got
          /\ requests' = IF r.kind = "resp" THEN requests + 1 ELSE requests
    /\ fetches' = fetches + 1
    /\ sent_end_id' = pg.end_id
    /\ UNCHANGED cfg
    /\ UNCHANGED <<localVars, lambdaVars, dedupVars, awsVars, httpVars, clientVars>>

----------------------------------------------------------------------------
\* The exchanges and the requests

\* items of the pages of the paginator run that is followed call by call:
\* the kinds of last item the cursor rule tells apart
PagLedger ==
    << [tradeId |-> 1, orderId |-> 7, cTime |-> 1],
       [fillId |-> 2, cTime |-> 2],
       [orderId |-> 3, cTime |-> 3],
       [cTime |-> 4],
       NonDict >>

\* a page of as many fills as the largest request asks for
FullPage == [i \in 1..MAX_LIMIT |-> [tradeId |-> i, orderId |-> i, cTime |-> i]]

PagResponses ==
    {Envelope(SUCCESS, w, flag) : w \in Windows(PagLedger), flag \in BOOLEAN}
        \cup {Envelope(SUCCESS, FullPage, flag) : flag \in BOOLEAN}
        \cup {ErrorEnvelope, ListEnvelope, Raised}

\* the small page size, and a page size above the client's limit
PagConfigs ==
    [per_page : {PerPage, MAX_LIMIT + PerPage}, max_pages : {None, 2},
     use_fills : BOOLEAN]

\* stamped records handed to the merge stage on its own
MergePool ==
    { [symbol |-> 1, orderId |-> 1, cTime |-> 1],
      [symbol |-> 1, orderId |-> 1, cTime |-> 2],
      [symbol |-> 1, tradeId |-> 1, timestamp |-> 3],
      [symbol |-> 2, orderId |-> 1, cTime |-> 1],
      [symbol |-> 1, id |-> 2, createTime |-> 2],
      [symbol |-> 1, tradeId |-> 1, id |-> 3, cTime |-> 3] }

\* the requests served by the ledger exchange: no symbols, one symbol, two
\* symbols, one symbol named twice
SymbolLists == {<<>>, <<1>>, <<1, 2>>, <<1, 1>>}

\* the request served by the small exchange
SeveralSymbols == [i \in 1..MaxSymbols |-> i]

ManySymbols == {[i \in 1..n |-> i] : n \in {TEST_SYMBOLS + 1, MaxManySymbols}}

\* requests of one full batch, of two full batches, and of one symbol more
BatchLists ==
    {[i \in 1..n |-> i] :
        n \in {BATCH_SIZE, BATCH_SIZE + 1, BATCH_SIZE + BATCH_SIZE,
               BATCH_SIZE + BATCH_SIZE + 1}}

----------------------------------------------------------------------------
\* Initial states: one per entry point

PagIdle ==
    /\ pg = PagNone /\ cfg = LocalConfig /\ fetches = 0 /\ got = <<>> /\ last = Raised
    /\ sent_end_id = None

LocalIdle ==
    /\ selected_symbols = <<>> /\ max_workers = 0 /\ task = <<>> /\ runs = <<>>
    /\ all_orders = <<>> /\ result = [success |-> FALSE]

LambdaIdle ==
    /\ wresults = <<>> /\ wlog = <<>> /\ cresult = [success |-> FALSE]

HttpIdle ==
    /\ hpc = "idle" /\ hsymbols = <<>> /\ hdebug = FALSE /\ hstatus = 0

DedupIdle ==
    /\ dd_once = <<>> /\ dd_twice = <<>>

AwsIdle ==
    /\ symbol_batches = <<>> /\ polls = 0 /\ astatus = "none" /\ acause = "none"
    /\ aresult = [success |-> FALSE]

\* a call of extract_futures_orders_local
InitLocal ==
    /\ lpc = "start" /\ wpc = "idle" /\ dpc = "idle" /\ apc = "idle"
    /\ test_mode \in BOOLEAN
    /\ \/ symbols \in SymbolLists /\ api = "ledger"
       \/ symbols = SeveralSymbols /\ api = "small"
    /\ asymbols = <<>> /\ dd_in = <<>>
    /\ PagIdle /\ LocalIdle /\ LambdaIdle /\ DedupIdle /\ AwsIdle
    /\ HttpIdle /\ ClientIdle /\ requests = 0

\* a call of the paginator
InitPag ==
    /\ lpc = "idle" /\ wpc = "idle" /\ dpc = "idle" /\ apc = "idle"
    /\ pg = PagInit /\ cfg \in PagConfigs /\ fetches = 0 /\ got = <<>> /\ last = Raised
    /\ sent_end_id = None
    /\ symbols = <<>> /\ test_mode = FALSE /\ api = "none"
    /\ asymbols = <<>> /\ dd_in = <<>>
    /\ LocalIdle /\ LambdaIdle /\ DedupIdle /\ AwsIdle
    /\ HttpIdle /\ ClientIdle /\ requests = 0

\* a run of the workers and the collector
InitLambda ==
    /\ lpc = "idle" /\ wpc = "map" /\ dpc = "idle" /\ apc = "idle"
    /\ symbols = <<>> /\ test_mode = FALSE /\ api = "lambda"
    /\ asymbols = <<>> /\ dd_in = <<>>
    /\ PagIdle /\ LocalIdle /\ LambdaIdle /\ DedupIdle /\ AwsIdle
    /\ HttpIdle /\ ClientIdle /\ requests = 0

\* the merge stage on a list of its own
InitDedup ==
    /\ lpc = "idle" /\ wpc = "idle" /\ dpc = "input" /\ apc = "idle"
    /\ symbols = <<>> /\ test_mode = FALSE /\ api = "none"
    /\ asymbols = <<>> /\ dd_in \in SeqsUpTo(MergePool, MaxLen)
    /\ PagIdle /\ LocalIdle /\ LambdaIdle /\ DedupIdle /\ AwsIdle
    /\ HttpIdle /\ ClientIdle /\ requests = 0

\* a call of extract_orders_aws
InitAws ==
    /\ lpc = "idle" /\ wpc = "idle" /\ dpc = "idle" /\ apc = "start"
    /\ symbols = <<>> /\ test_mode = FALSE
    /\ \/ asymbols \in {<<>>, <<1>>} /\ api = "ledger"
       \/ asymbols \in ManySymbols \cup BatchLists /\ api = "reject"
    /\ dd_in = <<>>
    /\ PagIdle /\ LocalIdle /\ LambdaIdle /\ DedupIdle /\ AwsIdle
    /\ HttpIdle /\ ClientIdle /\ requests = 0

\* a POST /extract request
InitHttp ==
    /\ lpc = "idle" /\ wpc = "idle" /\ dpc = "idle" /\ apc = "idle"
    /\ hpc = "request" /\ hsymbols \in {<<>>, <<1>>} /\ hdebug \in BOOLEAN /\ hstatus = 0
    /\ symbols = <<>> /\ test_mode = FALSE /\ api = "ledger"
    /\ asymbols = <<>> /\ dd_in = <<>>
    /\ PagIdle /\ LocalIdle /\ LambdaIdle /\ DedupIdle /\ AwsIdle /\ ClientIdle
    /\ requests = 0

\* a call of a client operation
InitClient ==
    /\ lpc = "idle" /\ wpc = "idle" /\ dpc = "idle" /\ apc = "idle"
    /\ kpc = "call" /\ kfills \in BOOLEAN /\ khttp \in HttpOutcomes /\ kret = ClientRaised
    /\ symbols = <<>> /\ test_mode = FALSE /\ api = "none"
    /\ asymbols = <<>> /\ dd_in = <<>>
    /\ PagIdle /\ LocalIdle /\ LambdaIdle /\ DedupIdle /\ AwsIdle /\ HttpIdle
    /\ requests = 0

Init ==
    InitLocal \/ InitPag \/ InitLambda \/ InitDedup \/ InitAws \/ InitHttp \/ InitClient

Next ==
    \/ LocalNext
    \/ PageFetch(PagResponses)
    \/ LambdaNext
    \/ ApplyDedup
    \/ AwsNext
    \/ HttpNext
    \/ ClientCall

Spec == Init /\ [][Next]_vars

\* Specification SpecPool: extract_futures_orders_local on requests with more
\* symbols than the pool has workers, against the rejecting exchange
InitPool ==
    /\ lpc = "start" /\ wpc = "idle" /\ dpc = "idle" /\ apc = "idle"
    /\ test_mode \in BOOLEAN
    /\ symbols \in ManySymbols /\ api = "reject"
    /\ asymbols = <<>> /\ dd_in = <<>>
    /\ PagIdle /\ LocalIdle /\ LambdaIdle /\ DedupIdle /\ AwsIdle
    /\ HttpIdle /\ ClientIdle /\ requests = 0

SpecPool == InitPool /\ [][LocalNext]_vars

\* Specification SpecFair: extract_futures_orders_local against an exchange
\* whose client calls may raise, with the scheduling the interpreter gives:
\* the main thread and every pool thread that can take a step does so.
InitFair ==
    /\ lpc = "start" /\ wpc = "idle" /\ dpc = "idle" /\ apc = "idle"
    /\ test_mode \in BOOLEAN
    /\ symbols \in SymbolLists /\ api = "flaky"
    /\ asymbols = <<>> /\ dd_in = <<>>
    /\ PagIdle /\ LocalIdle /\ LambdaIdle /\ DedupIdle /\ AwsIdle
    /\ HttpIdle /\ ClientIdle /\ requests = 0

\* the step of a pool thread that runs task i: its client call returns for
\* the last time, or raises, or the backoff ends
TaskStep(i) ==
    /\ i \in DOMAIN task
    /\ (TaskRaise(i) \/ TaskRetry(i) \/ TaskFinish(i))

Fairness ==
    /\ WF_vars(LocalStart)
    /\ WF_vars(LocalMerge)
    /\ \A i \in 1..MaxSymbols :
          /\ WF_vars(i \in DOMAIN task /\ TaskStart(i))
          /\ WF_vars(TaskStep(i))
          /\ WF_vars(i \in DOMAIN task /\ Join(i))

SpecFair == InitFair /\ [][LocalNext]_vars /\ Fairness

\* Specification SpecAwsFair: extract_orders_aws with its fallback, run by a
\* thread that takes every step it can; the orchestrator answers each
\* describe_execution with any status.
InitAwsFair ==
    /\ lpc = "idle" /\ wpc = "idle" /\ dpc = "idle" /\ apc = "start"
    /\ symbols = <<>> /\ test_mode = FALSE
    /\ asymbols \in {<<1>>, SeveralSymbols} /\ api = "reject"
    /\ dd_in = <<>>
    /\ PagIdle /\ LocalIdle /\ LambdaIdle /\ DedupIdle /\ AwsIdle
    /\ HttpIdle /\ ClientIdle /\ requests = 0

AwsRunNext == AwsNext \/ LocalNext

AwsFairness ==
    /\ WF_vars(AwsStart) /\ WF_vars(AwsPoll) /\ WF_vars(AwsStore) /\ WF_vars(AwsReturn)
    /\ Fairness

SpecAwsFair == InitAwsFair /\ [][AwsRunNext]_vars /\ AwsFairness

----------------------------------------------------------------------------
\* Notions of the specification the claims are stated in

\* the logical id of a record: whichever of orderId / tradeId / fillId / id
\* is present
LogicalId(r) ==
    Or(Or(Or(Get(r, "orderId"), Get(r, "tradeId")), Get(r, "fillId")), Get(r, "id"))

LogicalIdentity(r) == <<Get(r, "symbol"), LogicalId(r)>>

\* the logical timestamp of a record: the first present of timestamp,
\* cTime / ctime, createTime, lastUpdateTime, and 0 when none is
LogicalTimestamp(r) ==
    Or(Or(Or(Or(Or(Get(r, "timestamp"), Get(r, "cTime")), Get(r, "ctime")),
             Get(r, "createTime")), Get(r, "lastUpdateTime")), 0)

Range(seq) == {seq[k] : k \in 1..Len(seq)}

Occurrences(seq, r) == Cardinality({k \in 1..Len(seq) : seq[k] = r})

UniqueIdentities(data) ==
    \A i, j \in 1..Len(data) : i < j => LogicalIdentity(data[i]) # LogicalIdentity(data[j])

NewestFirst(data) ==
    \A i \in 1..(Len(data) - 1) : LogicalTimestamp(data[i]) >= LogicalTimestamp(data[i + 1])

\* extract_futures_orders_local has returned
LocalReturned == lpc = "done"

\* the collector has returned
CollectorReturned == wpc = "done"

----------------------------------------------------------------------------
\* Claims

\* C1: the paginator stops right after the first successful page whose
\* nextFlag is false: if that is page k, exactly k client calls were issued,
\* no further call is possible, and the result is the concatenation, in
\* order, of the items of the pages received.
C1_StopsAtNextFlagFalse ==
    (fetches > 0 /\ last.kind = "resp" /\ last.code = SUCCESS /\ ~last.nextFlag)
        => /\ pg.status = "done"
           /\ pg.page = fetches
           /\ pg.all_items = got
           /\ ~ENABLED PageFetch(PagResponses)

\* two full pages, the second with nextFlag false: two calls, both pages kept
C1_Witness ==
    /\ fetches = 2 /\ pg.status = "done"
    /\ last.kind = "resp" /\ last.code = SUCCESS /\ ~last.nextFlag
    /\ Len(last.items) = PerPage
    /\ Len(pg.all_items) = 2 * PerPage

\* C2: in the data of every result of the local path and of the collector no
\* two records share (symbol, logical id).
C2_NoSharedIdentity ==
    /\ LocalReturned => UniqueIdentities(result.data)
    /\ CollectorReturned => UniqueIdentities(cresult.data)

\* C3: when one symbol's fetch always errors and others return records, the
\* merged result has success true, holds records of every succeeding symbol
\* and names the failing symbol in failed_symbols.
C3_FailedSymbolMarked ==
    (/\ LocalReturned
     /\ \E i \in DOMAIN task : task[i].errored
     /\ \E j \in DOMAIN task : task[j].orders # <<>>)
        => /\ result.success
           /\ \A j \in DOMAIN task :
                 task[j].orders # <<>>
                    => \E r \in Range(result.data) : r.symbol = selected_symbols[j]
           /\ "failed_symbols" \in DOMAIN result
           /\ \A i \in DOMAIN task :
                 task[i].errored => selected_symbols[i] \in Range(result.failed_symbols)

\* C4: during the fan-out the number of symbol tasks in flight never exceeds
\* min(number of selected symbols, 10), and min(number of selected symbols, 3)
\* in test mode.
C4_InFlightWithinCap ==
    Cardinality(InFlight)
        <= Min(Len(selected_symbols), IF test_mode THEN 3 ELSE 10)

\* ten tasks run while an eleventh waits in the queue
C4_Witness ==
    /\ ~test_mode
    /\ Cardinality(InFlight) = 10
    /\ Queued # {}

\* C5: in the data of the local path and of the collector every record's
\* logical timestamp is at least that of the record after it.
C5_NewestFirst ==
    /\ LocalReturned => NewestFirst(result.data)
    /\ CollectorReturned => NewestFirst(cresult.data)

\* C6: each of the three dedup loops, applied to its own output, returns that
\* output unchanged.
C6_DedupIdempotent ==
    dpc = "done" => dd_twice = dd_once

\* a list of which every variant drops a record
C6_Witness ==
    /\ dpc = "done"
    /\ Len(dd_in) = MaxLen
    /\ Len(dd_once.local) < Len(dd_in)
    /\ Len(dd_once.collector) < Len(dd_in)
    /\ Len(dd_once.worker) < Len(dd_in)
    /\ Len(dd_once.worker) > 1

C8_TotalIsLength ==
    /\ LocalReturned => result.total_orders = Len(result.data)
    /\ CollectorReturned => cresult.total_orders = Len(cresult.data)
    /\ \A k \in 1..Len(wresults) :
          IsDict(ResultData(wresults[k]))
             => ResultData(wresults[k]).total_orders = Len(ResultData(wresults[k]).orders)

\* a collector result over a failed worker and a worker with several records
C8_Witness ==
    /\ CollectorReturned
    /\ cresult.success /\ cresult.total_orders >= 1
    /\ Len(wresults) = 2
    /\ IsDict(ResultData(wresults[1])) /\ ~ResultData(wresults[1]).success
    /\ IsDict(ResultData(wresults[2])) /\ Len(ResultData(wresults[2]).orders) >= 2

\* C9: the paginator is run exactly once for each entry of the selected
\* symbols, whatever the siblings do, and the merge input holds exactly the
\* records the tasks returned.
C9_OncePerSymbolSiblingsKept ==
    /\ \A i \in DOMAIN runs : runs[i] <= 1
    /\ (LocalReturned /\ selected_symbols # <<>>)
          => /\ DOMAIN task = 1..Len(selected_symbols)
             /\ \A i \in DOMAIN task :
                   /\ runs[i] = 1
                   /\ task[i].st = "joined"
                   /\ \A r \in Range(task[i].orders) :
                         Occurrences(all_orders, r)
                            >= Occurrences(task[i].orders, r)

\* one task met only errors, a sibling's records reached the merge
C9_Witness ==
    /\ LocalReturned
    /\ \E i, j \in DOMAIN task :
          /\ task[i].errored
          /\ task[j].orders # <<>>
          /\ Range(task[j].orders) \subseteq Range(all_orders)

HttpEmptyRejected ==
    (hpc # "idle" /\ hsymbols = <<>>)
        => /\ lpc = "idle" /\ apc = "idle"
           /\ task = <<>>
           /\ requests = 0
           /\ hpc = "responded" => hstatus = 400

\* a worker invoked with an empty list: the failure 'No symbols provided' and
\* no request to the exchange
WorkerEmptyRejected ==
    \A k \in 1..Len(wlog) :
        (wlog[k].is_list /\ wlog[k].symbols = <<>>)
            => /\ ~ResultData(wresults[k]).success
               /\ ResultData(wresults[k]).error = "No symbols provided"
               /\ ResultData(wresults[k]).orders = <<>>
               /\ wlog[k].requests = 0

\* C11 (as stated): a run invoked with an empty symbol list is rejected
\* before any request to the exchange, any fetch task and any workflow: on
\* POST /extract, in the worker, and in extract_futures_orders_local.
C11_EmptyRejectedBeforeWork ==
    /\ HttpEmptyRejected
    /\ WorkerEmptyRejected
    /\ (LocalReturned /\ symbols = <<>>)
          => (~result.success /\ task = <<>> /\ requests = 0)

\* C11 (amended): POST /extract and the worker reject an empty symbol list
\* before any request, task or workflow; extract_futures_orders_local
\* without symbols first asks the exchange for the symbol list, and when
\* that yields none it returns success false having sent at most that one
\* request and started no task.
C11_EmptyRejectedOrDiscovered ==
    /\ HttpEmptyRejected
    /\ WorkerEmptyRejected
    /\ (LocalReturned /\ symbols = <<>>)
          => (~result.success /\ task = <<>> /\ runs = <<>> /\ requests <= 1)

\* the discovery request was sent and found nothing
C11_Witness ==
    /\ LocalReturned /\ symbols = <<>>
    /\ ~result.success
    /\ requests = 1

\* the worker outputs from which the collector takes records
Producing == {k \in 1..Len(wresults) : Usable(ResultData(wresults[k]))}

\* data holds a record of the logical identity of r
Represented(r, data) ==
    \E d \in Range(data) : LogicalIdentity(d) = LogicalIdentity(r)

\* the local path on a run in which a symbol produced records
LocalPartialIsSuccess ==
    (LocalReturned /\ \E i \in DOMAIN task : task[i].orders # <<>>)
        => /\ result.success
           /\ \A i \in DOMAIN task : \A r \in Range(task[i].orders) :
                 Represented(r, result.data)

\* C12: whenever at least one symbol's fetch produced records, the local
\* path and the collector return success true with those records (one
\* record of each logical identity among them) in data.
C12_PartialIsSuccess ==
    /\ LocalPartialIsSuccess
    /\ (CollectorReturned /\ Producing # {})
          => /\ cresult.success
             /\ \A k \in Producing : \A r \in Range(ResultData(wresults[k]).orders) :
                   Represented(r, cresult.data)

\* C13: a client call that raises is retried once; when the retry raises
\* too, the pagination of the symbol is truncated: the paginator returns
\* the items gathered so far and issues no further call.
C13_RetriedOnceThenTruncated ==
    [][(/\ fetches > 0 /\ last.kind = "exc"
        /\ fetches' = fetches + 1 /\ last'.kind = "exc")
           => (pg'.status = "done" /\ pg'.all_items = got')]_vars

\* C14: after a response with a non-success code the paginator has returned
\* (it did not raise), what it returned is exactly the items of the earlier
\* successful pages, and no further call is issued.
C14_StopsAtErrorCode ==
    (fetches > 0 /\ last.kind = "resp" /\ last.code # SUCCESS)
        => /\ pg.status = "done"
           /\ pg.page = fetches
           /\ pg.all_items = got
           /\ ~ENABLED PageFetch(PagResponses)

\* a full page, then a rejected one: the full page is what is returned
C14_Witness ==
    /\ fetches = 2
    /\ last.kind = "resp" /\ last.code # SUCCESS
    /\ pg.status = "done"
    /\ Len(pg.all_items) = PerPage

\* C15: on a transport error and on an HTTP error status the two client
\* operations do not raise: they return an envelope whose code is the
\* synthetic non-success code.
C15_ErrorsBecomeEnvelopes ==
    (kpc = "done" /\ khttp.kind \in {"transport", "status"})
        => /\ kret # ClientRaised
           /\ kret.code = "error"
           /\ kret.code # SUCCESS

\* status 500 whose body is a success envelope with a fill: the fills
\* operation answers with the synthetic envelope
C15_Witness ==
    /\ kpc = "done" /\ kfills
    /\ khttp.kind = "status" /\ khttp.status = 500
    /\ khttp.body # NullData /\ khttp.body.code = SUCCESS
    /\ kret = Synthetic(TRUE, "status")

NonTerminal == Statuses \ {"SUCCEEDED", "FAILED", "TIMED_OUT", "ABORTED"}

\* C16: extract_orders_aws stays in the polling loop while the status is not
\* terminal; it leaves the loop on SUCCEEDED, reading the output, and on
\* FAILED, TIMED_OUT and ABORTED, failing the batch path; the output is not
\* read before SUCCEEDED was observed.
C16_PollsUntilTerminal ==
    /\ apc \in {"start", "poll"} => aresult = [success |-> FALSE]
    /\ apc = "poll" => astatus \in NonTerminal \cup {"none"}
    /\ apc = "store" => (astatus = "SUCCEEDED" /\ aresult \in WorkflowOutputs)
    /\ astatus \in NonTerminal => (apc = "poll" \/ acause = "describe_execution")
    /\ astatus = "SUCCEEDED"
          => (apc = "store" \/ acause = "s3" \/ (apc = "done" /\ acause = "none"))
    /\ astatus \in {"FAILED", "TIMED_OUT", "ABORTED"}
          => (apc \in {"fallback", "done"} /\ acause = astatus)
    /\ (apc = "done" /\ acause = "none") => astatus = "SUCCEEDED"

\* the execution was seen running, then succeeded, and its output was read
C16_Witness ==
    /\ apc = "store"
    /\ polls = MaxPolls + 1
    /\ astatus = "SUCCEEDED"
    /\ aresult \in WorkflowOutputs

\* C17: a run of the fan-out always completes: extract_futures_orders_local
\* eventually returns when every client call returns or raises.
C17_FanOutReturns == <>LocalReturned

\* the records the exchanges of the runs hold, as their payloads carry them
RawRecords == Range(Ledger) \cup {Relabelled, Garbled}

\* r is a record of the exchange with the fields of added set and every
\* other field as the exchange returned it
StampedFrom(r, added) ==
    \E x \in RawRecords :
        /\ DOMAIN r = DOMAIN x \cup added
        /\ \A f \in DOMAIN x \ added : r[f] = x[f]

\* the records in the outputs of the workers
WorkerRecords ==
    UNION {Range(ResultData(wresults[k]).orders) : k \in Producing}

WorkerStamps == {"symbol", "worker_id", "data_type"}

\* C18 as stated: in the local, worker and collector outputs a record differs
\* from what the exchange returned only in its symbol field, and no field
\* besides symbol is added.
C18_OnlySymbolSet ==
    /\ LocalReturned => \A r \in Range(result.data) : StampedFrom(r, {"symbol"})
    /\ \A r \in WorkerRecords : StampedFrom(r, {"symbol"})
    /\ CollectorReturned => \A r \in Range(cresult.data) : StampedFrom(r, {"symbol"})

\* C18 amended: a record of the local output differs from what the exchange
\* returned only in its symbol field; a record of a worker or collector
\* output only in its symbol, worker_id and data_type fields, which the
\* worker sets; no other field is added or changed.
C18_OnlyStampsSet ==
    /\ LocalReturned => \A r \in Range(result.data) : StampedFrom(r, {"symbol"})
    /\ \A r \in WorkerRecords : StampedFrom(r, WorkerStamps)
    /\ CollectorReturned => \A r \in Range(cresult.data) : StampedFrom(r, WorkerStamps)

\* the collector returned records that a worker stamped
C18_Witness ==
    /\ CollectorReturned
    /\ cresult.data # <<>>
    /\ \E r \in Range(cresult.data) : "cTime" \in DOMAIN r /\ r.worker_id # r.cTime

\* the per-symbol record lists of the run, in the order of the symbols
PerSymbolLists == [i \in DOMAIN task |-> task[i].orders]

\* what the run returns when the fetches complete in the order of the symbols
InOrderData == SortLocal(DedupLocal(Concat(PerSymbolLists)))

\* C19: for fixed per-symbol record lists the data of
\* extract_futures_orders_local does not depend on the completion order of
\* the fetches: every run returns what the run completing in symbol order
\* returns.
C19_OrderIndependent == LocalReturned => result.data = InOrderData

\* the first record of the list that has the logical identity of r
FirstOfIdentity(list, r) ==
    list[CHOOSE k \in 1..Len(list) :
            /\ LogicalIdentity(list[k]) = LogicalIdentity(r)
            /\ \A j \in 1..(k - 1) : LogicalIdentity(list[j]) # LogicalIdentity(r)]

\* out holds, for every logical identity of a record of list, exactly one
\* record, the first of that identity in list, and nothing else
KeepsFirstOfEach(list, out) ==
    /\ Range(out) \subseteq Range(list)
    /\ \A r \in Range(list) :
          /\ Cardinality({k \in 1..Len(out) :
                            LogicalIdentity(out[k]) = LogicalIdentity(r)}) = 1
          /\ FirstOfIdentity(list, r) \in Range(out)

\* C20: the dedup loops of the local path and of the collector discard a
\* record only when an earlier record has its symbol and its logical id
\* (first present of orderId / tradeId / fillId / id): the first record of
\* each logical identity is kept and each identity of the input appears
\* exactly once in the output.
C20_FirstOfEachIdentityKept ==
    dpc = "done" => /\ KeepsFirstOfEach(dd_in, dd_once.local)
                    /\ KeepsFirstOfEach(dd_in, dd_once.collector)

\* the items the paginator reads from the last response
LastItems == IF last.isDict THEN last.items ELSE <<>>

\* C21: after a successful page that is empty or holds fewer than per_page
\* items the paginator has returned and issues no further call, whatever the
\* page's nextFlag; what it returns is the items of the pages received, the
\* short page's included (an empty page adds nothing).
C21_StopsAtShortPage ==
    (/\ fetches > 0 /\ last.kind = "resp" /\ last.code = SUCCESS
     /\ Len(LastItems) < cfg.per_page)
        => /\ pg.status = "done"
           /\ pg.page = fetches
           /\ pg.all_items = got
           /\ ~ENABLED PageFetch(PagResponses)

\* a full page, then a page of one item whose nextFlag is true
C21_Witness ==
    /\ fetches = 2 /\ pg.status = "done"
    /\ last.kind = "resp" /\ last.code = SUCCESS /\ last.isDict /\ last.nextFlag
    /\ Len(last.items) = cfg.per_page - 1
    /\ Len(pg.all_items) = 2 * cfg.per_page - 1

\* C22: with max_pages set to N >= 1 the paginator issues at most N page
\* fetches, whatever the outcomes of the calls.
C22_AtMostMaxPages ==
    (cfg.max_pages # None /\ pg.status # "idle") => fetches <= cfg.max_pages

\* the id of an item that the next request is to carry: tradeId, else
\* fillId, in fills mode; orderId in orders mode; None when it has none
IdForCursor(item, use_fills) ==
    IF ~IsDict(item) THEN None
    ELSE IF use_fills
      THEN IF Get(item, "tradeId") # None THEN item.tradeId ELSE Get(item, "fillId")
    ELSE Get(item, "orderId")

\* the last item of the page the last response delivered
LastOfPage == last.items[Len(last.items)]

\* C23: the first client call carries no cursor; a call that follows a page
\* carries the id of the last item of that page (tradeId, else fillId, in
\* fills mode; orderId in orders mode), a call that follows a raising call
\* carries the cursor again that the raising call carried; and after a page
\* whose last item has no such id no call follows.
C23_CursorIsLastId ==
    [][fetches' = fetches + 1 =>
          IF fetches = 0 THEN sent_end_id' = None
          ELSE IF last.kind = "exc" THEN sent_end_id' = sent_end_id
          ELSE /\ IdForCursor(LastOfPage, cfg.use_fills) # None
               /\ sent_end_id' = IdForCursor(LastOfPage, cfg.use_fills)]_vars

\* in fills mode the second call carries the fillId of an item without tradeId
C23_Witness ==
    /\ fetches > 1 /\ cfg.use_fills
    /\ sent_end_id # None
    /\ \E k \in 1..Len(got) :
          /\ IsDict(got[k]) /\ Get(got[k], "tradeId") = None
          /\ Get(got[k], "fillId") = sent_end_id

\* list sorted by descending logical timestamp, records of equal logical
\* timestamp left in the order they have in list
StablyNewestFirst(list) ==
    SortDesc(list, [i \in 1..Len(list) |-> LogicalTimestamp(list[i])])

\* the concatenation the collector dedups
CollectorConcat == CollectorLoop(wresults, 1, <<>>, 0, 0).all_orders

\* C24: the data of the local path and of the collector is the deduplicated
\* list ordered by descending logical timestamp, two records of equal
\* logical timestamp keeping the relative order they have in the
\* deduplicated list.
C24_StableNewestFirst ==
    /\ LocalReturned => result.data = StablyNewestFirst(DedupLocal(all_orders))
    /\ (CollectorReturned /\ cresult.success)
          => cresult.data = StablyNewestFirst(DedupCollector(CollectorConcat))

\* C25: the key by which the merge stage sorted a record equals the record's
\* logical timestamp (first present of timestamp, cTime / ctime, createTime,
\* lastUpdateTime, else 0), in the local path and in the collector.
C25_KeyIsLogicalTimestamp ==
    /\ LocalReturned
          => \A r \in Range(result.data) : LocalSortKey(r) = LogicalTimestamp(r)
    /\ CollectorReturned
          => \A r \in Range(cresult.data) : get_timestamp(r) = LogicalTimestamp(r)

\* the least number of batches of BATCH_SIZE symbols that hold n symbols
CeilBatches(n) == CHOOSE k \in 0..n : k * BATCH_SIZE >= n /\ (k - 1) * BATCH_SIZE < n

\* extract_orders_aws has partitioned its symbols
Batched == apc \notin {"idle", "start"}

\* C26: the batches of extract_orders_aws, concatenated in order, are the
\* symbol list; every batch is non-empty, every batch but the last has
\* exactly BATCH_SIZE symbols and the last at most that many; their number is
\* ceil(n / BATCH_SIZE), which is the estimate of /extract/massive.
C26_ContiguousBatches ==
    Batched =>
        /\ Concat(symbol_batches) = asymbols
        /\ \A b \in 1..Len(symbol_batches) :
              /\ Len(symbol_batches[b]) >= 1
              /\ Len(symbol_batches[b]) <= BATCH_SIZE
              /\ b < Len(symbol_batches) => Len(symbol_batches[b]) = BATCH_SIZE
        /\ Len(symbol_batches) = CeilBatches(Len(asymbols))
        /\ Len(symbol_batches) = estimated_batches(Len(asymbols))

\* two full batches and a last batch that is not full
C26_Witness ==
    /\ Batched
    /\ Len(symbol_batches) > 2
    /\ Len(symbol_batches[Len(symbol_batches)]) < BATCH_SIZE
    /\ Len(symbol_batches[1]) = BATCH_SIZE

\* C27: the polling loop is bounded: whatever the orchestrator reports,
\* extract_orders_aws eventually stops polling.
C27_PollingEnds == (apc = "poll") ~> (apc # "poll")

JoinedLists ==
    Concat([i \in DOMAIN task |-> IF task[i].st = "joined" THEN task[i].orders ELSE <<>>])

\* all_orders holds the records of the joined tasks, each as often as the
\* tasks returned it
NothingLostOrDuplicated ==
    /\ Len(all_orders) = Len(JoinedLists)
    /\ \A r \in Range(JoinedLists) :
          Occurrences(all_orders, r) = Occurrences(JoinedLists, r)

\* C29: a step changes the list of at most one task; all_orders changes only
\* when the fan-in thread takes a completed task, by appending that task's
\* list; and after every step all_orders holds exactly the records of the
\* tasks taken so far, none lost and none duplicated.
C29_AppendsOnlyAtFanIn ==
    [][/\ DOMAIN task' = DOMAIN task
          => \A i, j \in DOMAIN task :
                (task'[i] # task[i] /\ task'[j] # task[j]) => i = j
       /\ all_orders' # all_orders
          => \E i \in DOMAIN task :
                /\ task[i].st = "done" /\ task'[i].st = "joined"
                /\ task'[i].orders = task[i].orders
                /\ all_orders' = all_orders \o task[i].orders
       /\ NothingLostOrDuplicated']_vars

\* every task returned records and the tasks were taken in another order
\* than that of the symbols
C29_Witness ==
    /\ LocalReturned
    /\ Len(task) > 1
    /\ \A i \in DOMAIN task : task[i].orders # <<>>
    /\ all_orders # Concat(PerSymbolLists)
    /\ NothingLostOrDuplicated

\* a workflow output with the two fields extract_orders_aws adds
Augmented(out) ==
    SetField(SetField(out, "s3_location", "s3"),
             "extraction_method", "step_functions_massive_parallel")

\* C30: once the execution was seen SUCCEEDED the local fallback is not run,
\* and what extract_orders_aws returns is the workflow's output with
\* s3_location and extraction_method added, also when the object store
\* fails.
C30_SucceededReturnsOutput ==
    astatus = "SUCCEEDED"
        => /\ lpc = "idle"
           /\ apc = "done" => \E out \in WorkflowOutputs : aresult = Augmented(out)

\* the worker results with success true and a non-empty orders list
WithOrders ==
    {k \in 1..Len(wresults) :
        LET rd == ResultData(wresults[k])
        IN  /\ IsDict(rd)
            /\ Get(rd, "success") = TRUE
            /\ "orders" \in DOMAIN rd /\ rd.orders # <<>>}

\* C31: when the collector returns success, processed_symbols plus
\* failed_symbols is the number of worker results received, and
\* processed_symbols is the number of results with success true and a
\* non-empty orders list.
C31_CountsPartitionResults ==
    (CollectorReturned /\ cresult.success)
        => /\ cresult.processed_symbols + cresult.failed_symbols = Len(wresults)
           /\ cresult.processed_symbols = Cardinality(WithOrders)

\* a successful worker result without orders, counted as failed next to a
\* result that was processed
C31_Witness ==
    /\ CollectorReturned /\ cresult.success
    /\ cresult.processed_symbols > 0
    /\ cresult.failed_symbols > 0
    /\ \E k \in 1..Len(wresults) :
          /\ IsDict(ResultData(wresults[k]))
          /\ Get(ResultData(wresults[k]), "success") = TRUE
          /\ ResultData(wresults[k]).orders = <<>>

\* a worker result on which the collector's loop raises
MalformedEntry == \E k \in 1..Len(wresults) : ~IsDict(ResultData(wresults[k]))

\* a record of the collector's deduplicated list whose timestamp is no integer
GarbledTimestamp ==
    /\ ~MalformedEntry
    /\ \E r \in Range(DedupCollector(CollectorConcat)) :
          Or(Or(Or(Get(r, "ctime"), Get(r, "cTime")), Get(r, "timestamp")),
             Get(r, "createTime")) = NotANumber

\* C32: the collector always returns a dict, and when its merge, dedup or
\* sort raises (a malformed worker entry, a record whose timestamp is no
\* integer) the dict is the failure result: success false, no data,
\* total_orders 0, failed_symbols the number of worker results.
C32_ExceptionsBecomeFailure ==
    CollectorReturned
        => /\ IsDict(cresult) /\ "success" \in DOMAIN cresult
           /\ (MalformedEntry \/ GarbledTimestamp)
                 => /\ ~cresult.success
                    /\ cresult.data = <<>>
                    /\ cresult.total_orders = 0
                    /\ cresult.failed_symbols = Len(wresults)

\* two well-formed worker results with records, one record with a timestamp
\* that is no integer: the failure result, the records discarded
C32_Witness ==
    /\ CollectorReturned
    /\ GarbledTimestamp
    /\ Len(wresults) > 1
    /\ \A k \in 1..Len(wresults) : k \in WithOrders
    /\ ~cresult.success /\ cresult.data = <<>>

\* C33: the collector's dedup applied to the worker-deduplicated list gives
\* the list the collector's dedup gives on the raw list: the worker discards
\* no record the collector would have kept.
C33_WorkerRefinesCollector ==
    dpc = "done" => DedupCollector(dd_once.worker) = dd_once.collector

\* C34: a successful page that holds as many items as the request asked
\* for (the limit the client sent) and whose nextFlag is true, whose last
\* item has an id for the cursor and that is not the max_pages-th call, is
\* followed by another call: the paginator has not returned.
C34_FullPageIsFollowed ==
    (/\ fetches > 0 /\ last.kind = "resp" /\ last.code = SUCCESS /\ last.isDict
     /\ last.nextFlag
     /\ Len(last.items) = Limit(cfg.per_page)
     /\ IdForCursor(LastOfPage, cfg.use_fills) # None
     /\ (cfg.max_pages = None \/ fetches < cfg.max_pages))
        => pg.status = "run"

\* C35: when the exchange answered HTTP 200 with a JSON envelope, what
\* get_futures_history_orders and get_futures_fills return is that envelope:
\* its code, its msg and its data, for success and non-success codes alike.
C35_EnvelopeUnmodified ==
    (kpc = "done" /\ khttp.kind = "json")
        => /\ kret # ClientRaised
           /\ kret.code = khttp.body.code
           /\ kret.msg = khttp.body.msg
           /\ kret.data = khttp.body.data

====
